---- MODULE Spec2Model ----
(***************************************************************************)
(* Formlabs Home Assistant integration: the token cache and API client     *)
(* (custom_components/formlabs/api.py) and the poll coordinator            *)
(* (coordinator.py), as a state machine of concurrent asyncio tasks that   *)
(* share one FormlabsApi instance.                                         *)
(***************************************************************************)
EXTENDS Integers, Sequences, FiniteSets, TLC

\* ------------------------------------------------------------------ bounds
\* Number of tasks, besides the coordinator's tick, that call into the one
\* FormlabsApi instance.
NumCallers == 2
\* Longest printer list the vendor API returns while the tasks interleave.
MaxListed == 1
\* Longest printer list given to the mapping loop of _async_update_data.
MaxPrinters == 3

\* The task the host runs FormlabsCoordinator's refresh in.
Coordinator == 0
Callers == 1..NumCallers
Tasks == {Coordinator} \cup Callers

\* ------------------------------------------------------------ JSON values
\* Python None, as held by _token or returned by dict.get for a missing key.
None == "<None>"
\* The path list_printers passes to _request.
PRINTERS_PATH == "/printers/"

\* `if self._token` / `if not serial`: None and the empty string are falsy.
Truthy(v) == v \notin {None, ""}

\* Response bodies (resp.text()) of error responses.
Bodies == {"denied"}

\* ---------------------------------------------------------- token endpoint
TokenStatuses == {200, 201, 500}
AccessTokens == {None, "", "tokA", "tokB"}
TokenTypes == {None, "MAC"}

\* A response of POST TOKEN_URL: the status, the body text, and the fields of
\* interest of the parsed body (None: the key is missing from the payload).
TokenResponses ==
    [status : {200}, text : {"json"}, access_token : AccessTokens, token_type : TokenTypes]
    \cup [status : TokenStatuses \ {200}, text : Bodies, access_token : {None}, token_type : {None}]

NoTokenResponse == [status |-> 0, text |-> "", access_token |-> None, token_type |-> None]

\* payload.get("token_type", "Bearer")
PayloadTokenType(resp) == IF resp.token_type = None THEN "Bearer" ELSE resp.token_type

\* ------------------------------------------------------- printer endpoint
GetStatuses == {200, 399, 400, 401, 403}

\* p.get("serial"): null, a string or a number; s is what str(serial) gives.
NullSerial == [kind |-> "null", s |-> "None"]
Serials == {NullSerial, [kind |-> "str", s |-> ""], [kind |-> "str", s |-> "A"],
            [kind |-> "str", s |-> "B"], [kind |-> "int", s |-> "7"]}

\* Mutant of SerialTruthy: no entry is skipped.
SerialTruthyAlways(serial) == TRUE

\* `if not serial`: None, the empty string and the number 0 are falsy.
SerialTruthy(serial) ==
    /\ serial.kind # "null"
    /\ serial.kind = "str" => serial.s # ""
    /\ serial.kind = "int" => serial.s # "0"

\* str(serial)
Str(serial) == serial.s

\* One element of the returned JSON array: a printer object, or (obj = FALSE)
\* a JSON value that is not an object and so has no .get.
NotAnObject == [obj |-> FALSE, serial |-> NullSerial]
Entries == [obj : {TRUE}, serial : Serials] \cup {NotAnObject}

RECURSIVE SeqsUpTo(_, _)
SeqsUpTo(S, n) ==
    IF n = 0 THEN {<< >>}
    ELSE LET shorter == SeqsUpTo(S, n - 1)
         IN shorter \cup {Append(q, e) : q \in {x \in shorter : Len(x) = n - 1}, e \in S}

\* resp.json() of GET /printers/: a JSON array, or JSON null.
JsonNull == [t |-> "null", items |-> << >>]
Payloads(n) == {[t |-> "list", items |-> q] : q \in SeqsUpTo(Entries, n)} \cup {JsonNull}

\* The payloads answered to a direct caller of async_list_printers, which
\* hands the parsed JSON back without looking into it.
OpaquePayloads ==
    {JsonNull, [t |-> "list", items |-> << >>],
     [t |-> "list", items |-> <<[obj |-> TRUE, serial |-> [kind |-> "str", s |-> "A"]]>>]}

\* The responses of GET /printers/ whose body parses to one of `payloads`.
GetResponses(payloads) ==
    [status : {s \in GetStatuses : s < 400}, text : {"json"}, json : payloads]
    \cup [status : {s \in GetStatuses : s >= 400}, text : Bodies, json : {JsonNull}]

NoGetResponse == [status |-> 0, text |-> "", json |-> JsonNull]

\* -------------------------------------------------------------- exceptions
\* An exception: its class, the parts its message is formatted from, and the
\* class of the exception it was raised from.
NoPayload == [access_token |-> None, token_type |-> None]
NoExc == [type |-> "", what |-> "", status |-> 0, path |-> "", text |-> "",
          payload |-> NoPayload, cause |-> ""]

\* FormlabsAuthError(f"Token error {resp.status}: {text}")
TokenStatusError(resp) ==
    [NoExc EXCEPT !.type = "FormlabsAuthError", !.what = "Token error",
                  !.status = resp.status, !.text = resp.text]

\* FormlabsAuthError(f"Token missing in response: {payload}")
TokenMissingError(resp) ==
    [NoExc EXCEPT !.type = "FormlabsAuthError", !.what = "Token missing in response",
                  !.payload = [access_token |-> resp.access_token,
                               token_type |-> resp.token_type]]

\* FormlabsApiError(f"API error {resp.status} on {path}: {text}")
ApiError(resp, path) ==
    [NoExc EXCEPT !.type = "FormlabsApiError", !.what = "API error",
                  !.status = resp.status, !.path = path, !.text = resp.text]

\* What aiohttp raises out of session.post / session.request and the reads of
\* the response: a timeout of the ClientTimeout, or a client error (transport
\* failure, body that is not JSON).
TransportErrors ==
    {[NoExc EXCEPT !.type = t] : t \in {"TimeoutError", "ClientError"}}


\* ----------------------------------------------------------------- outcomes
\* How a call ended: it returned a token (async_get_token), the parsed JSON
\* (async_list_printers) or {"printers_by_serial": by_serial}
\* (_async_update_data), or it raised exc.
Emp == [k \in {} |-> NotAnObject]
NoOutcome == [kind |-> "none", token |-> None, json |-> JsonNull, by_serial |-> Emp, exc |-> NoExc]
ReturnToken(t) == [NoOutcome EXCEPT !.kind = "return", !.token = t]
ReturnJson(j) == [NoOutcome EXCEPT !.kind = "return", !.json = j]
ReturnData(m) == [NoOutcome EXCEPT !.kind = "return", !.by_serial = m]
Raise(e) == [NoOutcome EXCEPT !.kind = "raise", !.exc = e]

\* ------------------------------------------------------------ api.py, pure
\* Mutant of CacheHit: the cached token is never looked at.
CacheHitNever(tok) == FALSE

\* Line 30, `if self._token`: the cached token is returned.
CacheHit(tok) == Truthy(tok)

\* Mutant of TokenRefused: only error statuses are refused.
TokenRefusedFrom400(status) == status >= 400

\* Line 46, `if resp.status != 200`
TokenRefused(status) == status # 200

\* Mutant of IsApiFailure: the comparison is strict.
IsApiFailureAbove400(status) == status > 400

\* Line 74, `if resp.status >= 400`
IsApiFailure(status) == status >= 400

\* Mutant of ClearsToken: every error status clears the token.
ClearsTokenOnAnyError(status) == status >= 400

\* Mutant of ClearsToken: 403 is forgotten.
ClearsTokenOn401Only(status) == status = 401

\* Line 76, `if resp.status in (401, 403)`
ClearsToken(status) == status \in {401, 403}

\* Mutant of GetTokenOnResponse: the token type is stored before the token
\* is checked.
GetTokenOnResponseTypeFirst(resp, tok, ttype) ==
    IF TokenRefused(resp.status)
    THEN [token |-> tok, token_type |-> ttype, out |-> Raise(TokenStatusError(resp))]
    ELSE IF ~Truthy(resp.access_token)
         THEN [token |-> resp.access_token, token_type |-> PayloadTokenType(resp),
               out |-> Raise(TokenMissingError(resp))]
         ELSE [token |-> resp.access_token, token_type |-> PayloadTokenType(resp),
               out |-> ReturnToken(resp.access_token)]

\* async_get_token after the POST has answered: the new _token and
\* _token_type and how the call ends.
GetTokenOnResponse(resp, tok, ttype) ==
    IF TokenRefused(resp.status)
    THEN [token |-> tok, token_type |-> ttype, out |-> Raise(TokenStatusError(resp))]
    ELSE IF ~Truthy(resp.access_token)
         THEN [token |-> resp.access_token, token_type |-> ttype,
               out |-> Raise(TokenMissingError(resp))]
         ELSE [token |-> resp.access_token, token_type |-> PayloadTokenType(resp),
               out |-> ReturnToken(resp.access_token)]

\* _request after the GET has answered: the new _token and how the call ends.
RequestOnResponse(resp, path, tok) ==
    IF IsApiFailure(resp.status)
    THEN [token |-> IF ClearsToken(resp.status) THEN None ELSE tok,
          out |-> Raise(ApiError(resp, path))]
    ELSE [token |-> tok, out |-> ReturnJson(resp.json)]

\* ----------------------------------------------------- coordinator.py, pure
\* by_serial[str(serial)] = p
Put(m, k, v) == [x \in (DOMAIN m) \cup {k} |-> IF x = k THEN v ELSE m[x]]

\* What iterating a payload that is not a list raises ("for p in printers"),
\* and what p.get raises on an element that is not an object.
PayloadError(t) == [NoExc EXCEPT !.type = t]

\* The for loop of _async_update_data from element i on, by_serial being acc.
RECURSIVE BuildBySerial(_, _, _)
BuildBySerial(items, i, acc) ==
    IF i > Len(items) THEN ReturnData(acc)
    ELSE LET p == items[i] IN
         IF ~p.obj THEN Raise(PayloadError("AttributeError"))
         ELSE IF ~SerialTruthy(p.serial) THEN BuildBySerial(items, i + 1, acc)
         ELSE BuildBySerial(items, i + 1, Put(acc, Str(p.serial), p))

\* UpdateFailed(str(err)) from err
UpdateFailed(err) == [err EXCEPT !.type = "UpdateFailed", !.cause = err.type]

\* Mutant of ExceptClause: a failure is swallowed and an empty mapping returned.
ExceptClauseSwallow(body) == IF body.kind = "raise" THEN ReturnData(Emp) ELSE body

\* Mutant of ExceptClause: only FormlabsApiError is caught.
ExceptClauseApiOnly(body) ==
    IF body.kind = "raise" /\ body.exc.type = "FormlabsApiError"
    THEN Raise(UpdateFailed(body.exc)) ELSE body

\* _async_update_data's except clause: what leaves the method when its try
\* block ended as `body`.
ExceptClause(body) == IF body.kind = "raise" THEN Raise(UpdateFailed(body.exc)) ELSE body

\* _async_update_data from line 29 on, async_list_printers having returned
\* `printers`.
UpdateData(printers) ==
    ExceptClause(IF printers.t # "list" THEN Raise(PayloadError("TypeError"))
                 ELSE BuildBySerial(printers.items, 1, Emp))

\* ------------------------------------------------------------------- state
VARIABLES
    token,                \* FormlabsApi._token
    token_type,           \* FormlabsApi._token_type
    lock,                 \* FormlabsApi._lock: the set of tasks holding it
    pc,                   \* where each task is suspended
    op,                   \* the call each task is in
    req_token,            \* _request's local `token` while the GET is in flight
    nTok,                 \* token POSTs the task's current call has issued
    nGet,                 \* GETs the task's current call has issued
    printers,             \* _async_update_data's local `printers`
    last,                 \* the call that ended last: what it saw and how it ended
    data,                 \* DataUpdateCoordinator.data
    last_update_success,  \* DataUpdateCoordinator.last_update_success
    loop,                 \* _async_update_data's loop: its position and `by_serial`
    flow,                 \* the config flow: the step it is in and its `errors`
    arg,                  \* the printer object an adapter is evaluated on
    res,                  \* what the adapter read last returned
    setup,                \* async_setup_entry: its position, hass.data[DOMAIN][entry_id], the adapters
    cam                   \* the camera adapter: _last_image and what the last read returned

vars == <<token, token_type, lock, pc, op, req_token, nTok, nGet, printers, last, data,
          last_update_success, loop, flow, arg, res, setup, cam>>

\* What the client and the coordinator's tick never touch.
aux == <<loop, flow, arg, res, setup, cam>>

NoLoop == [i |-> 0, by_serial |-> Emp]
NoFlow == [step |-> "", errors |-> "", calls |-> << >>, posts |-> 0, gets |-> 0]
NoArg == [fn |-> ""]
NoRes == [fn |-> ""]
NoSetup == [step |-> "", registered |-> {}, forwarded |-> {}, entities |-> {}]
NoImage == None
NoFetch == [kind |-> "none", status |-> 0, body |-> None]
NoCamera == [last_image |-> NoImage, reads |-> 0, returned |-> NoImage, url |-> None,
             fetch |-> NoFetch, step |-> "idle"]

\* The calls a task makes: the coordinator's task runs ticks, the others call
\* the client directly.
OpsOf(c) == IF c = Coordinator THEN {"tick"} ELSE {"get_token", "list_printers"}

NoCall == [op |-> "", via |-> "", tresp |-> NoTokenResponse, gresp |-> NoGetResponse,
           printers |-> JsonNull, out |-> NoOutcome, nTok |-> 0, nGet |-> 0]

NoData == [set |-> FALSE, printers_by_serial |-> Emp]

\* FormlabsApi.__init__, FormlabsCoordinator.__init__
Init ==
    /\ token = None
    /\ token_type = "Bearer"
    /\ lock = {}
    /\ pc = [c \in Tasks |-> "idle"]
    /\ op = [c \in Tasks |-> ""]
    /\ req_token = [c \in Tasks |-> None]
    /\ nTok = [c \in Tasks |-> 0]
    /\ nGet = [c \in Tasks |-> 0]
    /\ printers = JsonNull
    /\ last = NoCall
    /\ data = NoData
    /\ last_update_success = TRUE
    /\ loop = NoLoop
    /\ flow = NoFlow
    /\ arg = NoArg
    /\ res = NoRes
    /\ setup = NoSetup
    /\ cam = NoCamera

\* The host's refresh around _async_update_data: publish what it returned, or
\* keep the data and record the failure when it raised UpdateFailed.
HostRefresh(out) ==
    /\ data' = IF out.kind = "return"
               THEN [set |-> TRUE, printers_by_serial |-> out.by_serial]
               ELSE data
    /\ last_update_success' = (out.kind = "return")

\* The call of task c ends with `out`.
Finish(c, via, tresp, gresp, out) ==
    /\ last' = [op |-> op[c], via |-> via, tresp |-> tresp, gresp |-> gresp,
                printers |-> printers, out |-> out, nTok |-> nTok[c], nGet |-> nGet[c]]
    /\ pc' = [pc EXCEPT ![c] = "idle"]
    /\ op' = [op EXCEPT ![c] = ""]
    /\ req_token' = [req_token EXCEPT ![c] = None]
    /\ nTok' = [nTok EXCEPT ![c] = 0]
    /\ nGet' = [nGet EXCEPT ![c] = 0]
    /\ printers' = JsonNull
    /\ IF op[c] = "tick" THEN HostRefresh(out)
       ELSE UNCHANGED <<data, last_update_success>>

\* The API call (async_get_token or async_list_printers) of task c ends as
\* `ended`: a tick goes on in _async_update_data, a direct call is over.
ApiCallEnds(c, via, tresp, gresp, ended) ==
    IF op[c] = "tick"
    THEN IF ended.kind = "return"
         THEN /\ pc' = [pc EXCEPT ![c] = "tk_build"]
              /\ printers' = ended.json
              /\ UNCHANGED <<op, req_token, nTok, nGet, last, data, last_update_success>>
         ELSE Finish(c, via, tresp, gresp, ExceptClause(ended))
    ELSE Finish(c, via, tresp, gresp, ended)

\* _request lines 60-72: the GET is sent with the token just obtained.
SendGet(c, t) ==
    /\ pc' = [pc EXCEPT ![c] = "rq_get"]
    /\ req_token' = [req_token EXCEPT ![c] = t]
    /\ nGet' = [nGet EXCEPT ![c] = @ + 1]
    /\ UNCHANGED <<op, nTok, printers, last, data, last_update_success>>

\* A task calls async_get_token or async_list_printers, or the host starts a
\* tick; each begins by waiting for the token lock.
Call(c, o) ==
    /\ pc[c] = "idle"
    /\ pc' = [pc EXCEPT ![c] = "gt_lock"]
    /\ op' = [op EXCEPT ![c] = o]
    /\ UNCHANGED <<token, token_type, lock, req_token, nTok, nGet, printers, last, data,
                   last_update_success>>
    /\ UNCHANGED aux

\* Mutant of LockFree: the lock is not waited for.
LockFreeAlways(l) == TRUE

\* Line 29, `async with self._lock`: the lock can be taken when no task holds it.
LockFree(l) == l = {}

\* async_get_token lines 29-44: the lock is acquired; a cached token is
\* returned at once, otherwise the POST is sent with the lock held.
Acquire(c) ==
    /\ pc[c] = "gt_lock"
    /\ LockFree(lock)
    /\ IF CacheHit(token)
       THEN /\ IF op[c] = "get_token"
               THEN Finish(c, "cached", NoTokenResponse, NoGetResponse, ReturnToken(token))
               ELSE SendGet(c, token)
            /\ UNCHANGED <<token, token_type, lock>>
       ELSE /\ lock' = {c}
            /\ pc' = [pc EXCEPT ![c] = "gt_post"]
            /\ nTok' = [nTok EXCEPT ![c] = @ + 1]
            /\ UNCHANGED <<token, token_type, op, req_token, nGet, printers, last, data,
                           last_update_success>>
    /\ UNCHANGED aux

\* Mutant of TokenResponse: the lock is released only when a token is returned.
TokenResponseKeepsLockOnError(c, resp) ==
    /\ pc[c] = "gt_post"
    /\ LET r == GetTokenOnResponse(resp, token, token_type) IN
       /\ token' = r.token
       /\ token_type' = r.token_type
       /\ lock' = IF r.out.kind = "return" THEN lock \ {c} ELSE lock
       /\ IF r.out.kind = "return" /\ op[c] # "get_token"
          THEN SendGet(c, r.out.token)
          ELSE ApiCallEnds(c, "token", resp, NoGetResponse, r.out)
    /\ UNCHANGED aux

\* async_get_token lines 45-56: the token endpoint answers.
TokenResponse(c, resp) ==
    /\ pc[c] = "gt_post"
    /\ LET r == GetTokenOnResponse(resp, token, token_type) IN
       /\ token' = r.token
       /\ token_type' = r.token_type
       /\ lock' = lock \ {c}
       /\ IF r.out.kind = "return" /\ op[c] # "get_token"
          THEN SendGet(c, r.out.token)
          ELSE ApiCallEnds(c, "token", resp, NoGetResponse, r.out)
    /\ UNCHANGED aux

\* Mutant of TokenFail: the lock stays held when the POST fails.
TokenFailKeepsLock(c, e) ==
    /\ pc[c] = "gt_post"
    /\ ApiCallEnds(c, "token_fail", NoTokenResponse, NoGetResponse, Raise(e))
    /\ UNCHANGED <<token, token_type, lock>>
    /\ UNCHANGED aux

\* async_get_token lines 39-49: the POST times out, the transport fails or
\* the body of a 200 response cannot be read as JSON.
TokenFail(c, e) ==
    /\ pc[c] = "gt_post"
    /\ lock' = lock \ {c}
    /\ ApiCallEnds(c, "token_fail", NoTokenResponse, NoGetResponse, Raise(e))
    /\ UNCHANGED <<token, token_type>>
    /\ UNCHANGED aux

\* Mutant of GetResponse: after a 401 or 403 the call authenticates again and
\* sends the GET once more.
GetResponseRetry(c, resp) ==
    /\ pc[c] = "rq_get"
    /\ LET r == RequestOnResponse(resp, PRINTERS_PATH, token) IN
       /\ token' = r.token
       /\ IF ClearsToken(resp.status)
          THEN /\ pc' = [pc EXCEPT ![c] = "gt_lock"]
               /\ UNCHANGED <<op, req_token, nTok, nGet, printers, last, data,
                              last_update_success>>
          ELSE ApiCallEnds(c, "get", NoTokenResponse, resp, r.out)
    /\ UNCHANGED <<token_type, lock>>
    /\ UNCHANGED aux

\* _request lines 73-79: the printer endpoint answers.
GetResponse(c, resp) ==
    /\ pc[c] = "rq_get"
    /\ LET r == RequestOnResponse(resp, PRINTERS_PATH, token) IN
       /\ token' = r.token
       /\ ApiCallEnds(c, "get", NoTokenResponse, resp, r.out)
    /\ UNCHANGED <<token_type, lock>>
    /\ UNCHANGED aux

\* _request lines 66-79: the GET times out, the transport fails or the body
\* of a response below 400 cannot be read as JSON.
GetFail(c, e) ==
    /\ pc[c] = "rq_get"
    /\ ApiCallEnds(c, "get_fail", NoTokenResponse, NoGetResponse, Raise(e))
    /\ UNCHANGED <<token, token_type, lock>>
    /\ UNCHANGED aux

\* _async_update_data lines 29-41 and the host's refresh around it.
Build(c) ==
    /\ pc[c] = "tk_build"
    /\ Finish(c, "build", NoTokenResponse, NoGetResponse, UpdateData(printers))
    /\ UNCHANGED <<token, token_type, lock>>
    /\ UNCHANGED aux

\* The responses task c may get from GET /printers/.
GetResponsesFor(c) ==
    GetResponses(IF c = Coordinator THEN Payloads(MaxListed) ELSE OpaquePayloads)

\* The steps of task c.
Step(c) ==
    \/ \E o \in OpsOf(c) : Call(c, o)
    \/ Acquire(c)
    \/ \E resp \in TokenResponses : TokenResponse(c, resp)
    \/ \E e \in TransportErrors : TokenFail(c, e)
    \/ \E resp \in GetResponsesFor(c) : GetResponse(c, resp)
    \/ \E e \in TransportErrors : GetFail(c, e)

\* Tasks calling async_get_token and async_list_printers on one FormlabsApi.
Next == \E c \in Callers : Step(c)

Spec == Init /\ [][Next]_vars

\* The coordinator's ticks on its FormlabsApi.
NextTick == Step(Coordinator) \/ Build(Coordinator)

SpecTick == Init /\ [][NextTick]_vars

\* What a tick in progress does next: it takes the free lock, a request in
\* flight is answered or fails (each carries a total timeout, api.py lines 43
\* and 71), the mapping is built.
Progress(c) ==
    \/ Acquire(c)
    \/ \E resp \in TokenResponses : TokenResponse(c, resp)
    \/ \E e \in TransportErrors : TokenFail(c, e)
    \/ \E resp \in GetResponsesFor(c) : GetResponse(c, resp)
    \/ \E e \in TransportErrors : GetFail(c, e)
    \/ Build(c)

\* The ticks, each step of a tick in progress being taken eventually.
SpecTickLive == SpecTick /\ WF_vars(Progress(Coordinator))

\* The calls on one FormlabsApi, each step of a call in progress being taken
\* eventually: a request in flight ends by its total timeout at the latest,
\* and a task waiting for the lock gets it when it is free again and again
\* (asyncio.Lock wakes its waiters in the order they arrived).
SpecLive == Spec /\ \A c \in Callers : SF_vars(Progress(c))

\* ------------------------------------------------- __init__.py, the setup
\* const.py: the keys of hass.data[DOMAIN][entry_id] and the platforms.
DATA_API == "api"
DATA_COORDINATOR == "coordinator"
PLATFORMS == {"sensor", "binary_sensor"}

\* The host's async_config_entry_first_refresh raises ConfigEntryNotReady when
\* the refresh it ran has failed.
FirstRefreshRaises(success) == ~success

\* What async_setup_entry leaves untouched.
SetupFrame == <<token, token_type, lock, req_token, nTok, nGet, printers, last, data,
                last_update_success, loop, flow, arg, res, cam>>

\* Mutant of SetupBegin: the client and the coordinator are registered before
\* the first refresh is awaited.
SetupBeginRegistersFirst ==
    /\ setup.step = ""
    /\ pc[Coordinator] = "idle"
    /\ pc' = [pc EXCEPT ![Coordinator] = "gt_lock"]
    /\ op' = [op EXCEPT ![Coordinator] = "tick"]
    /\ setup' = [setup EXCEPT !.step = "first_refresh",
                              !.registered = {DATA_API, DATA_COORDINATOR}]
    /\ UNCHANGED SetupFrame

\* async_setup_entry lines 20-31: the client and the coordinator are built
\* and the first refresh is started.
SetupBegin ==
    /\ setup.step = ""
    /\ pc[Coordinator] = "idle"
    /\ pc' = [pc EXCEPT ![Coordinator] = "gt_lock"]
    /\ op' = [op EXCEPT ![Coordinator] = "tick"]
    /\ setup' = [setup EXCEPT !.step = "first_refresh"]
    /\ UNCHANGED SetupFrame

\* Lines 31-34: the first refresh is over; if it raises, async_setup_entry
\* ends there, otherwise the client and the coordinator are registered.
FirstRefreshEnds ==
    /\ setup.step = "first_refresh"
    /\ pc[Coordinator] = "idle"
    /\ setup' = IF FirstRefreshRaises(last_update_success)
                THEN [setup EXCEPT !.step = "not_ready"]
                ELSE [setup EXCEPT !.step = "forward",
                                   !.registered = {DATA_API, DATA_COORDINATOR}]
    /\ UNCHANGED <<pc, op>>
    /\ UNCHANGED SetupFrame

\* Line 36 and the platform's async_setup_entry (sensor.py 262-311,
\* binary_sensor.py 77-96): the coordinator is looked up and one group of
\* adapters is created per serial of its data.
ForwardPlatform(p) ==
    /\ setup.step = "forward"
    /\ p \in PLATFORMS \ setup.forwarded
    /\ DATA_COORDINATOR \in setup.registered
    /\ setup' = [setup EXCEPT
                   !.forwarded = @ \cup {p},
                   !.entities = @ \cup {<<p, serial>> : serial \in DOMAIN data.printers_by_serial}]
    /\ UNCHANGED <<pc, op>>
    /\ UNCHANGED SetupFrame

\* Line 37: every platform is set up, async_setup_entry returns True.
SetupReturn ==
    /\ setup.step = "forward"
    /\ setup.forwarded = PLATFORMS
    /\ setup' = [setup EXCEPT !.step = "done"]
    /\ UNCHANGED <<pc, op>>
    /\ UNCHANGED SetupFrame

\* The setup of one config entry, with the first refresh's steps.
NextSetup ==
    \/ SetupBegin
    \/ Acquire(Coordinator)
    \/ \E resp \in TokenResponses : TokenResponse(Coordinator, resp)
    \/ \E e \in TransportErrors : TokenFail(Coordinator, e)
    \/ \E resp \in GetResponsesFor(Coordinator) : GetResponse(Coordinator, resp)
    \/ \E e \in TransportErrors : GetFail(Coordinator, e)
    \/ Build(Coordinator)
    \/ FirstRefreshEnds
    \/ \E p \in PLATFORMS : ForwardPlatform(p)
    \/ SetupReturn

SpecSetup == Init /\ [][NextSetup]_vars

\* ------------------------------------------------------------- camera.py
\* Reads of the camera in one run of the model.
MaxReads == 3

\* camera.py lines 40-48, _thumbnail_url: the thumbnail URL of the current
\* print run, None without a run, without a print_thumbnail object or with a
\* falsy URL.
ThumbnailUrl(printer) ==
    IF ~printer.has_run THEN None
    ELSE IF ~printer.pt_is_dict THEN None
    ELSE IF Truthy(printer.thumbnail) THEN printer.thumbnail ELSE None

\* The printer objects the camera reads.
ThumbPrinters == [has_run : BOOLEAN, pt_is_dict : BOOLEAN, thumbnail : {None, "", "u1", "u2"}]

\* resp.read() of empty length.
EmptyBytes == ""

\* How session.get on the URL ends: a response with a status and a body, or a
\* ClientError / TimeoutError (the total timeout of 20 s included).
Fetches ==
    [kind : {"resp"}, status : {200, 403, 404}, body : {EmptyBytes, "img1", "img2"}]
    \cup [kind : {"ClientError", "TimeoutError"}, status : {0}, body : {None}]

\* Mutant of StoresImage: the body of any response is stored.
StoresImageAnyStatus(f) == f.kind = "resp" /\ f.body # EmptyBytes

\* Lines 131-134: the body is stored when the status is 200 and the body is
\* not empty.
StoresImage(f) == f.kind = "resp" /\ f.status = 200 /\ f.body # EmptyBytes

\* What async_camera_image leaves untouched.
CameraFrame == <<token, token_type, lock, pc, op, req_token, nTok, nGet, printers, last,
                 data, last_update_success, loop, flow, arg, res, setup>>

\* Lines 119-129 and 141-142, async_camera_image on `printer`: with a URL the
\* GET is sent, without one the stored image is returned.
CameraBegin(printer) ==
    LET url == ThumbnailUrl(printer)
    IN /\ cam.step = "idle"
       /\ cam.reads < MaxReads
       /\ cam' = IF url # None
                 THEN [cam EXCEPT !.step = "get", !.url = url, !.fetch = NoFetch,
                                  !.returned = NoImage]
                 ELSE [cam EXCEPT !.reads = @ + 1, !.url = None, !.fetch = NoFetch,
                                  !.returned = cam.last_image]
       /\ UNCHANGED CameraFrame

\* Lines 128-142: the GET ends as f; the body is stored and returned, or the
\* stored image is returned.
CameraFetched(f) ==
    LET stored == IF StoresImage(f) THEN f.body ELSE cam.last_image
    IN /\ cam.step = "get"
       /\ cam' = [cam EXCEPT !.step = "idle", !.reads = @ + 1, !.fetch = f,
                             !.last_image = stored, !.returned = stored]
       /\ UNCHANGED CameraFrame

NextCamera ==
    \/ \E printer \in ThumbPrinters : CameraBegin(printer)
    \/ \E f \in Fetches : CameraFetched(f)

SpecCamera == Init /\ [][NextCamera]_vars

\* The mapping loop alone: async_list_printers has just returned `printers`
\* to the first tick, which had fetched its token.
InitBuild ==
    /\ token = "tokA"
    /\ token_type = "Bearer"
    /\ lock = {}
    /\ pc = [c \in Tasks |-> IF c = Coordinator THEN "tk_build" ELSE "idle"]
    /\ op = [c \in Tasks |-> IF c = Coordinator THEN "tick" ELSE ""]
    /\ req_token = [c \in Tasks |-> IF c = Coordinator THEN "tokA" ELSE None]
    /\ nTok = [c \in Tasks |-> IF c = Coordinator THEN 1 ELSE 0]
    /\ nGet = [c \in Tasks |-> IF c = Coordinator THEN 1 ELSE 0]
    /\ printers \in Payloads(MaxPrinters)
    /\ last = NoCall
    /\ data = NoData
    /\ last_update_success = TRUE
    /\ loop = NoLoop
    /\ flow = NoFlow
    /\ arg = NoArg
    /\ res = NoRes
    /\ setup = NoSetup
    /\ cam = NoCamera

NextBuild == Build(Coordinator)

SpecBuild == InitBuild /\ [][NextBuild]_vars

\* ----------------------------------------------- the mapping loop, stepwise
\* _Base._printer: the adapter's printer in the published snapshot, {} when
\* the snapshot has no entry under its serial.
EmptyObject == [obj |-> TRUE, serial |-> NullSerial]
AdapterPrinter(d, serial) ==
    IF serial \in DOMAIN d.printers_by_serial THEN d.printers_by_serial[serial]
    ELSE EmptyObject

\* Mutant of Published: the loop fills the mapping the adapters read.
PublishedShared(d, by_serial) == [d EXCEPT !.printers_by_serial = by_serial]

\* Line 29, `by_serial = {}`: the loop fills a dict of its own, so what is
\* published stays as it is while by_serial grows.
Published(d, by_serial) == d

\* Lines 29-31: by_serial is created and the iteration over `printers` begins.
LoopBegin(c) ==
    /\ pc[c] = "tk_build"
    /\ IF printers.t # "list"
       THEN /\ Finish(c, "build", NoTokenResponse, NoGetResponse,
                      ExceptClause(Raise(PayloadError("TypeError"))))
            /\ UNCHANGED loop
       ELSE /\ pc' = [pc EXCEPT ![c] = "tk_loop"]
            /\ loop' = [i |-> 1, by_serial |-> Emp]
            /\ UNCHANGED <<op, req_token, nTok, nGet, printers, last, data,
                           last_update_success>>
    /\ UNCHANGED <<token, token_type, lock, flow, arg, res, setup, cam>>

\* Lines 31-36: one iteration of the loop.
LoopStep(c) ==
    /\ pc[c] = "tk_loop"
    /\ loop.i <= Len(printers.items)
    /\ LET p == printers.items[loop.i] IN
       IF ~p.obj
       THEN /\ Finish(c, "build", NoTokenResponse, NoGetResponse,
                      ExceptClause(Raise(PayloadError("AttributeError"))))
            /\ loop' = NoLoop
       ELSE LET by_serial == IF SerialTruthy(p.serial)
                             THEN Put(loop.by_serial, Str(p.serial), p)
                             ELSE loop.by_serial
            IN /\ loop' = [i |-> loop.i + 1, by_serial |-> by_serial]
               /\ data' = Published(data, by_serial)
               /\ UNCHANGED <<pc, op, req_token, nTok, nGet, printers, last,
                              last_update_success>>
    /\ UNCHANGED <<token, token_type, lock, flow, arg, res, setup, cam>>

\* Line 38 and the host's refresh: the finished mapping is returned and
\* published.
LoopReturn(c) ==
    /\ pc[c] = "tk_loop"
    /\ loop.i > Len(printers.items)
    /\ Finish(c, "build", NoTokenResponse, NoGetResponse,
              ExceptClause(ReturnData(loop.by_serial)))
    /\ loop' = NoLoop
    /\ UNCHANGED <<token, token_type, lock, flow, arg, res, setup, cam>>

\* The serials adapters were created for.
AdapterSerials == {"A", "B"}

\* An adapter reads its printer from the snapshot.
ReadPrinter(serial) ==
    /\ res' = [fn |-> "_printer", serial |-> serial, value |-> AdapterPrinter(data, serial)]
    /\ UNCHANGED <<token, token_type, lock, pc, op, req_token, nTok, nGet, printers, last,
                   data, last_update_success, loop, flow, arg, setup, cam>>

\* The snapshots an earlier tick may have published.
EntryOf(s) == [obj |-> TRUE, serial |-> [kind |-> "str", s |-> s]]
PreviousSnapshots == {Emp, [k \in {"A", "B"} |-> EntryOf(k)]}

\* A later tick: async_list_printers has just returned `printers`, adapters
\* read the snapshot while the loop runs.
InitLoop ==
    /\ token = "tokA"
    /\ token_type = "Bearer"
    /\ lock = {}
    /\ pc = [c \in Tasks |-> IF c = Coordinator THEN "tk_build" ELSE "idle"]
    /\ op = [c \in Tasks |-> IF c = Coordinator THEN "tick" ELSE ""]
    /\ req_token = [c \in Tasks |-> IF c = Coordinator THEN "tokA" ELSE None]
    /\ nTok = [c \in Tasks |-> 0]
    /\ nGet = [c \in Tasks |-> IF c = Coordinator THEN 1 ELSE 0]
    /\ printers \in Payloads(MaxPrinters)
    /\ last = NoCall
    /\ \E m \in PreviousSnapshots : data = [set |-> TRUE, printers_by_serial |-> m]
    /\ last_update_success = TRUE
    /\ loop = NoLoop
    /\ flow = NoFlow
    /\ arg = NoArg
    /\ res = NoRes
    /\ setup = NoSetup
    /\ cam = NoCamera

NextLoop ==
    \/ LoopBegin(Coordinator)
    \/ LoopStep(Coordinator)
    \/ LoopReturn(Coordinator)
    \/ \E serial \in AdapterSerials : ReadPrinter(serial)

SpecLoop == InitLoop /\ [][NextLoop]_vars

\* ----------------------------------------------------------- config_flow.py
\* The task running async_step_user.
FlowTask == 1

\* Mutant of FlowExcept: only FormlabsAuthError is caught, anything else
\* leaves async_step_user.
FlowExceptAuthOnly(out) ==
    IF out.kind # "raise" THEN ""
    ELSE IF out.exc.type = "FormlabsAuthError" THEN "auth" ELSE "<raised>"

\* Lines 25-30, `except Exception: errors["base"] = "auth"`: errors["base"]
\* after a validation call ended as `out` ("" when errors stays empty).
FlowExcept(out) == IF out.kind = "raise" THEN "auth" ELSE ""

\* Lines 16-27: the form is submitted; a new FormlabsApi is made and
\* async_get_token called on it.
FlowSubmit(c) ==
    /\ flow.step = "form"
    /\ pc[c] = "idle"
    /\ token' = None
    /\ token_type' = "Bearer"
    /\ lock' = {}
    /\ pc' = [pc EXCEPT ![c] = "gt_lock"]
    /\ op' = [op EXCEPT ![c] = "get_token"]
    /\ flow' = [step |-> "get_token", errors |-> "", calls |-> << >>, posts |-> 0, gets |-> 0]
    /\ UNCHANGED <<req_token, nTok, nGet, printers, last, data, last_update_success,
                   loop, arg, res, setup, cam>>

\* Lines 27-44: a validation call has ended. After a failure the form is
\* shown with errors; after async_get_token, async_list_printers is called;
\* after both, the flow aborts when the integration is configured already
\* and creates the entry otherwise.
FlowCallEnds(c) ==
    /\ flow.step \in {"get_token", "list_printers"}
    /\ pc[c] = "idle"
    /\ LET errors == FlowExcept(last.out)
           f == [flow EXCEPT !.calls = Append(@, [op |-> last.op, ok |-> last.out.kind = "return"]),
                             !.posts = @ + last.nTok, !.gets = @ + last.nGet,
                             !.errors = errors]
       IN IF errors = "<raised>"
          THEN /\ flow' = [f EXCEPT !.step = "raised"]
               /\ UNCHANGED <<pc, op>>
          ELSE IF errors # ""
          THEN /\ flow' = [f EXCEPT !.step = "form"]
               /\ UNCHANGED <<pc, op>>
          ELSE IF flow.step = "get_token"
          THEN /\ flow' = [f EXCEPT !.step = "list_printers"]
               /\ pc' = [pc EXCEPT ![c] = "gt_lock"]
               /\ op' = [op EXCEPT ![c] = "list_printers"]
          ELSE /\ \E configured \in BOOLEAN :
                      flow' = [f EXCEPT !.step = IF configured THEN "abort" ELSE "entry"]
               /\ UNCHANGED <<pc, op>>
    /\ UNCHANGED <<token, token_type, lock, req_token, nTok, nGet, printers, last, data,
                   last_update_success, loop, arg, res, setup, cam>>

\* The user has opened the form: async_step_user(None) showed it without errors.
InitFlow ==
    /\ token = None
    /\ token_type = "Bearer"
    /\ lock = {}
    /\ pc = [c \in Tasks |-> "idle"]
    /\ op = [c \in Tasks |-> ""]
    /\ req_token = [c \in Tasks |-> None]
    /\ nTok = [c \in Tasks |-> 0]
    /\ nGet = [c \in Tasks |-> 0]
    /\ printers = JsonNull
    /\ last = NoCall
    /\ data = NoData
    /\ last_update_success = TRUE
    /\ loop = NoLoop
    /\ flow = [NoFlow EXCEPT !.step = "form"]
    /\ arg = NoArg
    /\ res = NoRes
    /\ setup = NoSetup
    /\ cam = NoCamera

NextFlow ==
    \/ FlowSubmit(FlowTask)
    \/ Acquire(FlowTask)
    \/ \E resp \in TokenResponses : TokenResponse(FlowTask, resp)
    \/ \E e \in TransportErrors : TokenFail(FlowTask, e)
    \/ \E resp \in GetResponsesFor(FlowTask) : GetResponse(FlowTask, resp)
    \/ \E e \in TransportErrors : GetFail(FlowTask, e)
    \/ FlowCallEnds(FlowTask)

SpecFlow == InitFlow /\ [][NextFlow]_vars

\* ------------------------------------------------------------ availability
\* str.upper() on the status strings of the model.
Upper(s) == CASE s = "offline" -> "OFFLINE" [] s = "Idle" -> "IDLE" [] OTHER -> s

\* _printer_status_str: printer_status.status as a string, None when
\* printer_status is missing or not an object or has no status.
PrinterStatusStr(printer) ==
    IF "printer_status" \in DOMAIN printer THEN printer.printer_status.status ELSE None

\* _is_online (sensor.py lines 37-41, camera.py lines 31-35)
IsOnline(printer) ==
    LET s == PrinterStatusStr(printer)
    IN s # None /\ Upper(s) \notin {"OFFLINE", "DISCONNECTED", "UNKNOWN"}

\* The adapters: those of sensor.py, the camera, the binary sensors.
AdapterKinds == {"sensor", "camera", "binary_sensor"}

\* Mutant of Available: the overrides look at the printer's status only.
AvailableOnlineOnly(kind, serial) ==
    IF kind = "binary_sensor" THEN last_update_success
    ELSE IsOnline(AdapterPrinter(data, serial))

\* `available` of an adapter: CoordinatorEntity.available, the coordinator's
\* last_update_success, which sensor.py and camera.py override to require an
\* online printer as well.
Available(kind, serial) ==
    IF kind = "binary_sensor" THEN last_update_success
    ELSE last_update_success /\ IsOnline(AdapterPrinter(data, serial))

\* The printer lists of the availability model: printer A with a status.
StatusPayloads ==
    {JsonNull, [t |-> "list", items |-> << >>]}
    \cup {[t |-> "list", items |-> <<[obj |-> TRUE, serial |-> [kind |-> "str", s |-> "A"],
                                      printer_status |-> [status |-> st]]>>] :
          st \in {"Idle", "offline", "OFFLINE", None}}

\* The coordinator's ticks, the printers carrying a status.
NextAvail ==
    \/ Call(Coordinator, "tick")
    \/ Acquire(Coordinator)
    \/ \E resp \in TokenResponses : TokenResponse(Coordinator, resp)
    \/ \E e \in TransportErrors : TokenFail(Coordinator, e)
    \/ \E resp \in GetResponses(StatusPayloads) : GetResponse(Coordinator, resp)
    \/ \E e \in TransportErrors : GetFail(Coordinator, e)
    \/ Build(Coordinator)

SpecAvail == Init /\ [][NextAvail]_vars

\* ------------------------------------------------- sensor.py, pure adapters
\* A JSON scalar read with .get: absent or null (k = "none"), a number n, or
\* a non-empty string that is not a number (k = "str").
NoneV == [k |-> "none", n |-> 0]
Num(n) == [k |-> "num", n |-> n]
NaN == [k |-> "str", n |-> 0]

\* Python truth of a scalar: None and 0 are falsy.
TruthyV(v) == v.k = "str" \/ (v.k = "num" /\ v.n # 0)

\* a / b rounded to the nearest integer (b # 0): round(x, 1) of a value held
\* in tenths.
Round(a, b) ==
    LET num == IF b < 0 THEN 0 - a ELSE a
        den == IF b < 0 THEN 0 - b ELSE b
    IN (2 * num + den) \div (2 * den)

\* Mutant of Clamp: the upper limit is not applied.
ClampBelowOnly(t) == IF t < 0 THEN 0 ELSE t

\* max(0.0, min(100.0, f)), in tenths of a percent.
Clamp(t) == IF t < 0 THEN 0 ELSE IF t > 1000 THEN 1000 ELSE t

\* Mutant of MissingDefault: a run without usable values reads None.
MissingDefaultNone == NoneV

\* Lines 481-482: "If run exists but values missing, keep stable 0 instead of
\* None".
MissingDefault == Num(0)

\* FormlabsProgressPercentSensor.native_value on the current print run, in
\* tenths of a percent. The layer and duration fields hold whole numbers,
\* progress and progress_percent hold tenths (5 is 0.5).
ProgressPercent(run) ==
    LET val == IF TruthyV(run.progress) THEN run.progress ELSE run.progress_percent
        cur_layer == run.currently_printing_layer
        layer_count == run.layer_count
        elapsed_ms == run.elapsed_duration_ms
        total_ms == run.estimated_duration_ms
    IN IF ~run.has THEN Num(0)
       ELSE IF val.k = "num"
       THEN Num(Clamp(IF 0 <= val.n /\ val.n <= 10 THEN val.n * 100 ELSE val.n))
       ELSE IF cur_layer.k # "none" /\ TruthyV(layer_count)
               /\ cur_layer.k = "num" /\ layer_count.k = "num"
       THEN Num(Clamp(Round(1000 * cur_layer.n, layer_count.n)))
       ELSE IF elapsed_ms.k # "none" /\ TruthyV(total_ms)
               /\ elapsed_ms.k = "num" /\ total_ms.k = "num"
       THEN Num(Clamp(Round(1000 * elapsed_ms.n, total_ms.n)))
       ELSE MissingDefault

\* The print runs the progress sensor is evaluated on; has = FALSE is a
\* printer without a current print run.
Runs ==
    [has : {TRUE}, progress : {NoneV, Num(0), Num(5)}, progress_percent : {NoneV, Num(0), Num(420)},
     currently_printing_layer : {NoneV, Num(50), Num(300), Num(0 - 5)},
     layer_count : {NoneV, Num(0), Num(200)},
     elapsed_duration_ms : {NoneV, Num(30)},
     estimated_duration_ms : {NoneV, Num(0), Num(60), NaN}]
    \cup [has : {FALSE}, progress : {NoneV}, progress_percent : {NoneV},
          currently_printing_layer : {NoneV}, layer_count : {NoneV},
          elapsed_duration_ms : {NoneV}, estimated_duration_ms : {NoneV}]

\* ONLINE_MAX_AGE = timedelta(minutes=10), in minutes.
ONLINE_MAX_AGE == 10

\* FormlabsOnlineBinary.is_on (src/binary_sensor.py) with _last_ping_dt: the
\* last ping is a time in minutes (k = "num"), missing, or a string that
\* parse_datetime does not read (k = "str"); utcnow() is printer.now.
OnlineBinaryIsOn(printer) ==
    LET val == IF printer.printer_status.last_pinged_at.k # "none"
               THEN printer.printer_status.last_pinged_at
               ELSE printer.last_pinged_at
        dt == IF val.k = "num" THEN val ELSE NoneV
    IN IF dt.k = "none" THEN FALSE
       ELSE printer.now - dt.n <= ONLINE_MAX_AGE

\* FormlabsOnlineBinarySensor.is_on (custom_components/formlabs/binary_sensor.py)
OnlineBinarySensorIsOn(printer) ==
    LET s == PrinterStatusStr(printer)
    IN s # None /\ Upper(s) \notin {"OFFLINE", "DISCONNECTED", "UNKNOWN"}

\* The printers the online sensors are evaluated on, read at minute 20.
PingedPrinters ==
    [now : {20}, last_pinged_at : {NoneV, Num(15), Num(5)},
     printer_status : [status : {None, "Idle", "offline", "OFFLINE"},
                       last_pinged_at : {NoneV, NaN, Num(20), Num(15), Num(10), Num(9),
                                         Num(5)}]]

\* The longest cartridge_status list of the model.
MaxItems == 2

\* A value that is not an object where a cartridge is expected, and "no
\* item" (None) of _cartridge_status_item.
NotACartridge == [isdict |-> FALSE, initial_volume_ml |-> NoneV, volume_dispensed_ml |-> NoneV]
NoItem == [isdict |-> FALSE, cartridge |-> NotACartridge]

\* Mutant of CartridgeStatusItem: the first object of a list is taken,
\* whatever its cartridge field holds.
CartridgeStatusItemFirstObject(printer) ==
    LET cs == printer.cartridge_status
        hits == {i \in 1..Len(cs.items) : cs.items[i].isdict}
    IN IF cs.t = "dict" THEN cs.items[1]
       ELSE IF cs.t = "list" /\ hits # {}
       THEN cs.items[CHOOSE i \in hits : \A j \in hits : i <= j]
       ELSE NoItem

\* _cartridge_status_item: cartridge_status is an object (t = "dict", held as
\* items[1]), a list, or anything else.
CartridgeStatusItem(printer) ==
    LET cs == printer.cartridge_status
        hits == {i \in 1..Len(cs.items) : cs.items[i].isdict /\ cs.items[i].cartridge.isdict}
    IN IF cs.t = "dict" THEN cs.items[1]
       ELSE IF cs.t = "list" /\ hits # {}
       THEN cs.items[CHOOSE i \in hits : \A j \in hits : i <= j]
       ELSE NoItem

\* Mutant of CartridgeRemainingMl: the difference is returned as it is.
CartridgeRemainingMlUnfloored(printer) ==
    LET item == CartridgeStatusItem(printer)
        cart == item.cartridge
    IN IF ~item.isdict \/ ~cart.isdict THEN NoneV
       ELSE IF cart.initial_volume_ml.k # "num" \/ cart.volume_dispensed_ml.k # "num"
       THEN NoneV
       ELSE Num(cart.initial_volume_ml.n - cart.volume_dispensed_ml.n)

\* _cartridge_remaining_ml with _cartridge_obj, in ml; NoneV is None.
CartridgeRemainingMl(printer) ==
    LET item == CartridgeStatusItem(printer)
        cart == item.cartridge
    IN IF ~item.isdict \/ ~cart.isdict THEN NoneV
       ELSE IF cart.initial_volume_ml.k = "none" \/ cart.volume_dispensed_ml.k = "none"
       THEN NoneV
       ELSE IF cart.initial_volume_ml.k = "str" \/ cart.volume_dispensed_ml.k = "str"
       THEN NoneV
       ELSE LET remaining == cart.initial_volume_ml.n - cart.volume_dispensed_ml.n
            IN Num(IF remaining < 0 THEN 0 ELSE remaining)

\* The printers the cartridge helpers are evaluated on.
CartridgePrinters ==
    LET Carts == [isdict : {TRUE}, initial_volume_ml : {NoneV, Num(1000)},
                  volume_dispensed_ml : {NoneV, NaN, Num(300), Num(1200)}]
                 \cup {NotACartridge}
        Items == [isdict : {TRUE}, cartridge : Carts] \cup {NoItem}
    IN {[cartridge_status |-> [t |-> "other", items |-> << >>]]}
       \cup {[cartridge_status |-> [t |-> "dict", items |-> <<it>>]] :
             it \in [isdict : {TRUE}, cartridge : Carts]}
       \cup {[cartridge_status |-> [t |-> "list", items |-> q]] : q \in SeqsUpTo(Items, MaxItems)}

\* Mutant of EtaNativeValue: the remaining time is added whatever its sign.
EtaNativeValueUnfloored(run) ==
    IF ~run.has \/ run.estimated_time_remaining_ms.k # "num" THEN NoneV
    ELSE Num(run.now + run.estimated_time_remaining_ms.n)

\* datetime.max, the last time a datetime can hold, on the model's time scale.
DatetimeMax == 100000

\* FormlabsEtaSensor.native_value with _eta_from_remaining_ms: times and
\* durations are whole milliseconds, dt_util.utcnow() is run.now. Adding a
\* timedelta that leads past datetime.max raises OverflowError, which the
\* except clause of lines 101-102 (TypeError, ValueError) is not around:
\* k = "raise" is the exception leaving native_value.
EtaNativeValue(run) ==
    LET ms == run.estimated_time_remaining_ms
    IN IF ~run.has THEN NoneV
       ELSE IF ms.k # "num" THEN NoneV
       ELSE IF ms.n <= 0 THEN Num(run.now)
       ELSE IF run.now + ms.n > DatetimeMax THEN [k |-> "raise", n |-> 0]
       ELSE Num(run.now + ms.n)

\* FormlabsTimeRemainingSensor.native_value, in seconds: 0 without a run or a
\* usable value, int(float(ms) / 1000.0) truncating towards zero.
TimeRemainingNativeValue(run) ==
    LET ms == run.estimated_time_remaining_ms
    IN IF ~run.has \/ ms.k # "num" THEN Num(0)
       ELSE IF ms.n <= 0 THEN Num(0)
       ELSE Num(ms.n \div 1000)

\* The print runs the ETA sensor is evaluated on, at two times of reading.
EtaRuns ==
    [has : BOOLEAN, now : {1000, 5000},
     estimated_time_remaining_ms : {NoneV, NaN, Num(0 - 2000), Num(0 - 1), Num(0), Num(1),
                                    Num(90000), Num(200000)}]

\* ------------------------------------------ binary_sensor.py, ready to print
\* A string is the sequence of its characters.
S_READY == <<"R", "E", "A", "D", "Y">>
S_NOT_READY == <<"N", "O", "T", "_", "R", "E", "A", "D", "Y">>
S_UNDERSCORE_READY == <<"_", "R", "E", "A", "D", "Y">>
S_READY_TO_PRINT_READY ==
    <<"R", "E", "A", "D", "Y", "_", "T", "O", "_", "P", "R", "I", "N", "T", "_", "R", "E", "A", "D", "Y">>
S_READY_TO_PRINT_NOT_READY ==
    <<"R", "E", "A", "D", "Y", "_", "T", "O", "_", "P", "R", "I", "N", "T", "_", "N", "O", "T", "_", "R", "E", "A", "D", "Y">>

\* `sub in s`
InStr(sub, s) ==
    \E i \in 1..Len(s) : i + Len(sub) - 1 <= Len(s) /\ SubSeq(s, i, i + Len(sub) - 1) = sub

\* s.endswith(suf)
EndsWith(s, suf) == Len(suf) <= Len(s) /\ SubSeq(s, Len(s) - Len(suf) + 1, Len(s)) = suf

\* str.upper(), on the letters of the model's values.
UpperStr(s) ==
    [i \in 1..Len(s) |->
        CASE s[i] = "r" -> "R" [] s[i] = "e" -> "E" [] s[i] = "a" -> "A"
          [] s[i] = "d" -> "D" [] s[i] = "y" -> "Y" [] s[i] = "u" -> "U"
          [] s[i] = "l" -> "L" [] s[i] = "s" -> "S" [] OTHER -> s[i]]

\* The values of printer_status.ready_to_print: absent (None), a boolean, a
\* string.
RNone == [k |-> "none", b |-> FALSE, s |-> << >>]
RBool(b) == [k |-> "bool", b |-> b, s |-> << >>]
RStr(s) == [k |-> "str", b |-> FALSE, s |-> s]
ReadyValues ==
    {RNone, RBool(TRUE), RBool(FALSE), RStr(S_READY_TO_PRINT_READY),
     RStr(S_READY_TO_PRINT_NOT_READY), RStr(S_READY), RStr(<<"r", "e", "a", "d", "y">>),
     RStr(<<"B", "U", "S", "Y">>), RStr(<< >>)}

\* The printer objects the ready-to-print adapters read: with or without a
\* printer_status object.
ReadyPrinters == [has_status : BOOLEAN, ready_to_print : ReadyValues]

\* _printer_status(printer).get("ready_to_print")
ReadyToPrint(printer) == IF printer.has_status THEN printer.ready_to_print ELSE RNone

\* str(val)
StrOf(val) ==
    CASE val.k = "bool" -> IF val.b THEN <<"T", "r", "u", "e">> ELSE <<"F", "a", "l", "s", "e">>
      [] val.k = "none" -> <<"N", "o", "n", "e">>
      [] OTHER -> val.s

\* custom_components/formlabs/binary_sensor.py: _ready_to_print_bool (35-52)
\* and FormlabsReadyToPrintBinarySensor.is_on (181-184).
ReadyToPrintBinarySensorIsOn(printer) ==
    LET val == ReadyToPrint(printer)
        s == UpperStr(StrOf(val))
    IN IF val.k = "none" THEN FALSE
       ELSE IF val.k = "bool" THEN val.b
       ELSE IF InStr(S_NOT_READY, s) THEN FALSE
       ELSE IF EndsWith(s, S_UNDERSCORE_READY) \/ s = S_READY THEN TRUE
       ELSE FALSE

\* src/binary_sensor.py: _ready_to_print_str (50-51) and
\* FormlabsReadyToPrintBinary.is_on (223-230).
ReadyToPrintBinaryIsOn(printer) ==
    LET raw == ReadyToPrint(printer)
        falsy == raw.k = "none" \/ (raw.k = "bool" /\ ~raw.b) \/ (raw.k = "str" /\ raw.s = << >>)
        val == IF falsy THEN << >> ELSE UpperStr(StrOf(raw))
    IN IF val = << >> THEN FALSE
       ELSE IF val = S_READY THEN TRUE
       ELSE InStr(S_READY, val)

\* What the adapters are evaluated on, each input with the adapter reading it.
AdapterInputs ==
    {[fn |-> "progress", v |-> run] : run \in Runs}
    \cup [fn : {"online", "online_by_status"}, v : PingedPrinters]
    \cup [fn : {"cartridge_item", "cartridge_remaining"}, v : CartridgePrinters]
    \cup [fn : {"eta", "time_remaining"}, v : EtaRuns]
    \cup [fn : {"ready", "ready_by_str"}, v : ReadyPrinters]

\* The value the adapter named by the input returns.
Eval(a) ==
    CASE a.fn = "progress" -> ProgressPercent(a.v)
      [] a.fn = "online" -> OnlineBinaryIsOn(a.v)
      [] a.fn = "online_by_status" -> OnlineBinarySensorIsOn(a.v)
      [] a.fn = "cartridge_item" -> CartridgeStatusItem(a.v)
      [] a.fn = "cartridge_remaining" -> CartridgeRemainingMl(a.v)
      [] a.fn = "eta" -> EtaNativeValue(a.v)
      [] a.fn = "time_remaining" -> TimeRemainingNativeValue(a.v)
      [] a.fn = "ready" -> ReadyToPrintBinarySensorIsOn(a.v)
      [] a.fn = "ready_by_str" -> ReadyToPrintBinaryIsOn(a.v)

\* An adapter is about to be read on one printer object.
InitAdapter ==
    /\ token = None
    /\ token_type = "Bearer"
    /\ lock = {}
    /\ pc = [c \in Tasks |-> "idle"]
    /\ op = [c \in Tasks |-> ""]
    /\ req_token = [c \in Tasks |-> None]
    /\ nTok = [c \in Tasks |-> 0]
    /\ nGet = [c \in Tasks |-> 0]
    /\ printers = JsonNull
    /\ last = NoCall
    /\ data = NoData
    /\ last_update_success = TRUE
    /\ loop = NoLoop
    /\ flow = NoFlow
    /\ arg \in AdapterInputs
    /\ res = NoRes
    /\ setup = NoSetup
    /\ cam = NoCamera

\* The host reads the adapter's property.
ReadAdapter ==
    /\ res = NoRes
    /\ res' = [fn |-> arg.fn, value |-> Eval(arg)]
    /\ UNCHANGED <<token, token_type, lock, pc, op, req_token, nTok, nGet, printers, last,
                   data, last_update_success, loop, flow, arg, setup, cam>>

NextAdapter == ReadAdapter

SpecAdapter == InitAdapter /\ [][NextAdapter]_vars

\* ------------------------------------------------------ sensor.py, _redact
\* A key is the sequence of its characters. _SENSITIVE_SUBSTRINGS:
SENSITIVE_SUBSTRINGS ==
    {<<"t", "o", "k", "e", "n">>, <<"s", "e", "c", "r", "e", "t">>,
     <<"p", "a", "s", "s", "w", "o", "r", "d">>,
     <<"a", "u", "t", "h", "o", "r", "i", "z", "a", "t", "i", "o", "n">>,
     <<"c", "o", "o", "k", "i", "e">>, <<"s", "i", "g", "n", "a", "t", "u", "r", "e">>,
     <<"a", "w", "s", "a", "c", "c", "e", "s", "s", "k", "e", "y", "i", "d">>,
     <<"e", "m", "a", "i", "l">>}

\* str(k).lower(), on the letters of the model's keys.
Lower(key) ==
    [i \in 1..Len(key) |->
        CASE key[i] = "T" -> "t" [] key[i] = "E" -> "e" [] key[i] = "M" -> "m"
          [] key[i] = "A" -> "a" [] key[i] = "I" -> "i" [] key[i] = "L" -> "l"
          [] OTHER -> key[i]]

\* Mutant of IsSensitive: the key is not lowered before it is searched.
IsSensitiveCased(key) ==
    \E sub \in SENSITIVE_SUBSTRINGS : \E i \in 1..Len(key) :
        i + Len(sub) - 1 <= Len(key) /\ SubSeq(key, i, i + Len(sub) - 1) = sub

\* any(s in lk for s in _SENSITIVE_SUBSTRINGS)
IsSensitive(key) ==
    \E sub \in SENSITIVE_SUBSTRINGS : \E i \in 1..Len(key) :
        i + Len(sub) - 1 <= Len(key) /\ SubSeq(Lower(key), i, i + Len(sub) - 1) = sub

\* A JSON value: a scalar (t = "str"), an object (its keys and values in kv,
\* in order) or a list.
Scalar(x) == [t |-> "str", s |-> x, kv |-> << >>, items |-> << >>]
REDACTED == Scalar("***REDACTED***")

\* _redact
RECURSIVE Redact(_)
Redact(obj) ==
    IF obj.t = "dict"
    THEN [obj EXCEPT !.kv = [i \in 1..Len(obj.kv) |->
                                [k |-> obj.kv[i].k,
                                 v |-> IF IsSensitive(obj.kv[i].k) THEN REDACTED
                                       ELSE Redact(obj.kv[i].v)]]]
    ELSE IF obj.t = "list"
    THEN [obj EXCEPT !.items = [i \in 1..Len(obj.items) |-> Redact(obj.items[i])]]
    ELSE obj

\* A call of _redact: what it returns and what the object passed in holds
\* afterwards (lines 246-251 and 255 build a new dict and a new list).
RedactCall(obj) == [out |-> Redact(obj), obj |-> obj]

\* The keys of the model: Token, xEMAIL, name, toke.
Keys == {<<"T", "o", "k", "e", "n">>, <<"x", "E", "M", "A", "I", "L">>,
         <<"n", "a", "m", "e">>, <<"t", "o", "k", "e">>}

\* The values one level above those of S: S itself, the objects of up to two
\* keys and the lists of up to two elements holding values of S.
Nest(S) ==
    S \cup {[t |-> "dict", s |-> "", kv |-> q, items |-> << >>] :
            q \in {<< >>} \cup {<<p>> : p \in [k : Keys, v : S]}
                  \cup {<<p, r>> : p \in [k : {<<"n", "a", "m", "e">>}, v : S],
                                   r \in [k : Keys \ {<<"n", "a", "m", "e">>}, v : S]}}
      \cup {[t |-> "list", s |-> "", kv |-> << >>, items |-> q] :
            q \in {<< >>} \cup {<<x>> : x \in S} \cup {<<x, y>> : x \in S, y \in S}}

\* The printer objects the raw payload sensor is evaluated on: three levels
\* of nesting, the outermost an object or list of one value.
Snapshots ==
    LET two == Nest(Nest({Scalar("v")}))
    IN two \cup {[t |-> "dict", s |-> "", kv |-> <<[k |-> key, v |-> x]>>, items |-> << >>] :
                 key \in {<<"n", "a", "m", "e">>}, x \in two}
           \cup {[t |-> "list", s |-> "", kv |-> << >>, items |-> <<x>>] : x \in two}

\* The raw payload sensor is about to be read on a stored printer object.
InitRedact ==
    /\ token = None
    /\ token_type = "Bearer"
    /\ lock = {}
    /\ pc = [c \in Tasks |-> "idle"]
    /\ op = [c \in Tasks |-> ""]
    /\ req_token = [c \in Tasks |-> None]
    /\ nTok = [c \in Tasks |-> 0]
    /\ nGet = [c \in Tasks |-> 0]
    /\ printers = JsonNull
    /\ last = NoCall
    /\ data = NoData
    /\ last_update_success = TRUE
    /\ loop = NoLoop
    /\ flow = NoFlow
    /\ arg \in [fn : {"redact"}, v : Snapshots]
    /\ res = NoRes
    /\ setup = NoSetup
    /\ cam = NoCamera

\* FormlabsRawPayloadSensor.extra_state_attributes
ReadPayload ==
    /\ res = NoRes
    /\ LET r == RedactCall(arg.v)
       IN /\ res' = [fn |-> "redact", value |-> r.out]
          /\ arg' = [arg EXCEPT !.v = r.obj]
    /\ UNCHANGED <<token, token_type, lock, pc, op, req_token, nTok, nGet, printers, last,
                   data, last_update_success, loop, flow, setup, cam>>

SpecRedact == InitRedact /\ [][ReadPayload]_vars

\* ------------------------------------------------------------------ claims
\* Task c leaves the program point `at` in this step and its call ends.
EndsFrom(c, at) == pc[c] = at /\ pc'[c] = "idle"

\* C1: once a token is cached, a get_token call that gets the lock returns
\* that token and sends no token request, and the cache keeps its token until
\* a printer-list response with status 401 or 403 clears it.
C1_CachedTokenReused ==
    [][/\ \A c \in Tasks :
            (pc[c] = "gt_lock" /\ pc'[c] # "gt_lock" /\ Truthy(token)) =>
                /\ pc'[c] # "gt_post"
                /\ nTok[c] = 0 /\ nTok'[c] = 0
                /\ token' = token
                /\ op[c] = "get_token" =>
                       /\ pc'[c] = "idle"
                       /\ last'.via = "cached"
                       /\ last'.nTok = 0
                       /\ last'.out = ReturnToken(token)
       /\ (Truthy(token) /\ token' # token) =>
              /\ token' = None
              /\ \E c \in Tasks : /\ EndsFrom(c, "rq_get")
                                  /\ last'.via = "get"
                                  /\ last'.gresp.status \in {401, 403}
      ]_vars

\* C1 witness: a get_token call has returned the cached token without a
\* token request of its own.
C1_Witness ==
    /\ last.op = "get_token" /\ last.via = "cached" /\ last.nTok = 0
    /\ last.out = ReturnToken("tokA") /\ token = "tokA"

\* C2: a printer-list response with status 401 or 403 ends the call with the
\* API error and leaves the token cache cleared, and a get_token that gets
\* the lock while the cache is empty sends a token request.
C2_AuthFailureClearsToken ==
    [][\A c \in Tasks :
          /\ (EndsFrom(c, "rq_get") /\ last'.via = "get"
              /\ last'.gresp.status \in {401, 403}) =>
                 /\ token' = None
                 /\ last'.out = Raise(ApiError(last'.gresp, PRINTERS_PATH))
          /\ (pc[c] = "gt_lock" /\ pc'[c] # "gt_lock" /\ ~Truthy(token)) =>
                 /\ pc'[c] = "gt_post"
                 /\ nTok'[c] = nTok[c] + 1
      ]_vars

\* C2 witness: after a 403 ended a list_printers call, the next call has a
\* token request in flight.
C2_Witness ==
    /\ last.op = "list_printers" /\ last.via = "get" /\ last.gresp.status = 403
    /\ token = None
    /\ \E c \in Callers : pc[c] = "gt_post" /\ nTok[c] = 1

\* The fetch of the tick recorded in l (its async_list_printers call) failed.
FetchFailed(l) ==
    \/ l.via \in {"token", "token_fail", "get_fail"}
    \/ l.via = "get" /\ l.gresp.status >= 400

\* C3: when the fetch of a tick fails, the coordinator's data is exactly what
\* it was before the tick ended and the failure is signalled (update failed,
\* last_update_success false).
C3_FailedTickKeepsSnapshot ==
    [][(pc[Coordinator] # "idle" /\ pc'[Coordinator] = "idle" /\ FetchFailed(last')) =>
           /\ data' = data
           /\ last_update_success' = FALSE
           /\ last'.out.kind = "raise"
           /\ last'.out.exc.type = "UpdateFailed"
      ]_vars

\* C3 witness: a snapshot with a printer was published, and a later tick whose
\* fetch threw has left it in place with the failure signalled.
C3_Witness ==
    /\ data.set /\ DOMAIN data.printers_by_serial = {"A"}
    /\ last.op = "tick" /\ last.via = "get_fail" /\ last.out.kind = "raise"
    /\ ~last_update_success

\* The elements of a returned list that have a serial (not null, not empty).
C4_WithSerial(items) ==
    {i \in 1..Len(items) : items[i].serial.kind # "null" /\ items[i].serial.s # ""}

\* C4: after a fetch that returned a list of printer objects, the tick
\* succeeds, the published mapping's keys are exactly the serials, as
\* strings, of the entries that have one, and each key maps to an unmodified
\* entry returned with that serial; entries without a serial are dropped.
C4_SnapshotKeyedBySerial ==
    (/\ last.via = "build"
     /\ last.printers.t = "list"
     /\ \A i \in 1..Len(last.printers.items) : last.printers.items[i].obj) =>
        LET items == last.printers.items
            m == data.printers_by_serial
        IN /\ last.out.kind = "return"
           /\ last_update_success
           /\ data.set
           /\ m = last.out.by_serial
           /\ DOMAIN m = {items[i].serial.s : i \in C4_WithSerial(items)}
           /\ \A k \in DOMAIN m :
                  \E i \in C4_WithSerial(items) : items[i].serial.s = k /\ m[k] = items[i]

\* C4 witness: printers A, B and one with serial null were returned, and the
\* published mapping has exactly the keys A and B.
C4_Witness ==
    /\ last.via = "build"
    /\ last.printers.t = "list"
    /\ Len(last.printers.items) = 3
    /\ last.printers.items[1] = [obj |-> TRUE, serial |-> [kind |-> "str", s |-> "A"]]
    /\ last.printers.items[2] = [obj |-> TRUE, serial |-> [kind |-> "str", s |-> "B"]]
    /\ last.printers.items[3] = [obj |-> TRUE, serial |-> NullSerial]
    /\ data.set
    /\ DOMAIN data.printers_by_serial = {"A", "B"}

\* C5: at most one token request is in flight at any time, it is sent only
\* by the holder of the lock while no token is cached, and a get_token call
\* that found the token of an earlier exchange returned that token without a
\* token request of its own.
C5_OneTokenRequestInFlight ==
    /\ Cardinality({c \in Tasks : pc[c] = "gt_post"}) <= 1
    /\ \A c \in Tasks : pc[c] = "gt_post" => lock = {c} /\ ~Truthy(token)
    /\ last.via = "cached" =>
           /\ last.nTok = 0
           /\ Truthy(token)
           /\ last.out = ReturnToken(token)

\* C5 witness: two get_token calls run concurrently while no token is cached:
\* one has its token request in flight, the other waits for the lock.
C5_Witness ==
    \E c, d \in Callers :
        /\ c # d
        /\ op[c] = "get_token" /\ pc[c] = "gt_post"
        /\ op[d] = "get_token" /\ pc[d] = "gt_lock"
        /\ ~Truthy(token)

\* C6: a token response with a status other than 200 ends get_token with an
\* Authentication error made of that status and the response body, and
\* leaves the cache as empty as it was.
C6_TokenStatusError ==
    [][\A c \in Tasks :
          (EndsFrom(c, "gt_post") /\ last'.via = "token" /\ last'.tresp.status # 200) =>
              /\ last'.out.kind = "raise"
              /\ last'.out.exc.type = "FormlabsAuthError"
              /\ last'.out.exc.what = "Token error"
              /\ last'.out.exc.status = last'.tresp.status
              /\ last'.out.exc.text = last'.tresp.text
              /\ last'.tresp.text \in Bodies
              /\ token' = token
              /\ ~Truthy(token')
      ]_vars

\* C6 witness: the token endpoint answered 500 and get_token raised the
\* Authentication error with the body; nothing is cached.
C6_Witness ==
    /\ last.op = "get_token" /\ last.via = "token" /\ last.tresp.status = 500
    /\ last.out.exc.type = "FormlabsAuthError" /\ last.out.exc.text = "denied"
    /\ token = None

\* C7: a 200 token response without an access token (missing or empty) ends
\* get_token with an Authentication error, leaves the cache empty and leaves
\* the token-type label as it was.
C7_TokenMissing ==
    [][\A c \in Tasks :
          (/\ EndsFrom(c, "gt_post") /\ last'.via = "token"
           /\ last'.tresp.status = 200
           /\ last'.tresp.access_token \in {None, ""}) =>
              /\ last'.out.kind = "raise"
              /\ last'.out.exc.type = "FormlabsAuthError"
              /\ ~Truthy(token')
              /\ token_type' = token_type
      ]_vars

\* C7 witness: a 200 response carried a token type but an empty access token;
\* get_token raised and the label is still the initial one.
C7_Witness ==
    /\ last.via = "token" /\ last.tresp.status = 200
    /\ last.tresp.access_token = "" /\ last.tresp.token_type = "MAC"
    /\ last.out.exc.type = "FormlabsAuthError"
    /\ token_type = "Bearer"

\* C8: a printer-list response with status 400 or above ends list_printers
\* with an API error made of the status, the path and the body, and no
\* printer data; a response with a status below 400 returns the parsed body.
C8_ApiErrorFrom400 ==
    (last.op = "list_printers" /\ last.via = "get") =>
        IF last.gresp.status >= 400
        THEN /\ last.out.kind = "raise"
             /\ last.out.exc.type = "FormlabsApiError"
             /\ last.out.exc.status = last.gresp.status
             /\ last.out.exc.path = "/printers/"
             /\ last.out.exc.text = last.gresp.text
             /\ last.gresp.text \in Bodies
             /\ last.out.json = JsonNull
        ELSE last.out = ReturnJson(last.gresp.json)

\* C8 witness: the printer endpoint answered 400 and list_printers raised.
C8_Witness ==
    /\ last.op = "list_printers" /\ last.via = "get" /\ last.gresp.status = 400
    /\ last.out.kind = "raise"

\* C9: a tick, which is one list_printers call, sends at most one token
\* request and at most one GET; a 401 or 403 ends it with the failure after
\* that one GET.
C9_NoRetryWithinCall ==
    /\ \A c \in Tasks : nTok[c] <= 1 /\ nGet[c] <= 1
    /\ last.nTok <= 1 /\ last.nGet <= 1
    /\ (last.via = "get" /\ last.gresp.status \in {401, 403}) =>
           /\ last.nGet = 1
           /\ last.out.kind = "raise"
           /\ "FormlabsApiError" \in {last.out.exc.type, last.out.exc.cause}

\* C9 witness: a tick fetched a token, sent its GET, got 401 and ended.
C9_Witness ==
    /\ last.op = "tick" /\ last.via = "get" /\ last.gresp.status = 401
    /\ last.nTok = 1 /\ last.nGet = 1
    /\ pc[Coordinator] = "idle"

\* C10: a tick ends by returning data or by raising UpdateFailed, never a
\* raw error: a failed token exchange, an API error, a timeout or transport
\* error and a malformed payload all leave it as UpdateFailed.
C10_OnlyUpdateFailedLeaves ==
    last.op = "tick" =>
        /\ last.out.kind \in {"return", "raise"}
        /\ last.out.kind = "raise" =>
               /\ last.out.exc.type = "UpdateFailed"
               /\ last.out.exc.cause \in {"FormlabsAuthError", "FormlabsApiError",
                                          "TimeoutError", "ClientError",
                                          "TypeError", "AttributeError"}
        /\ FetchFailed(last) => last.out.kind = "raise"
        /\ (last.via = "build" /\ last.printers.t # "list") => last.out.kind = "raise"
        /\ (/\ last.via = "build"
            /\ \E i \in 1..Len(last.printers.items) : ~last.printers.items[i].obj) =>
               last.out.kind = "raise"

\* C10 witness: an Authentication error of the token exchange left the tick
\* as UpdateFailed.
C10_Witness ==
    /\ last.op = "tick" /\ last.out.kind = "raise"
    /\ last.out.exc.type = "UpdateFailed"
    /\ last.out.exc.cause = "FormlabsAuthError"

\* C11: while a tick builds its mapping, the published snapshot stays the
\* complete mapping of the previous tick; it changes only in the step that
\* ends the tick, and then to the complete mapping of everything the tick
\* fetched; the mapping under construction is never what is published, and
\* every adapter read returns an entry of the published snapshot.
C11_SnapshotSwappedWhole ==
    [][/\ data' # data =>
              /\ EndsFrom(Coordinator, "tk_loop")
              /\ UpdateData(printers).kind = "return"
              /\ data' = [set |-> TRUE,
                          printers_by_serial |-> UpdateData(printers).by_serial]
       /\ (pc[Coordinator] = "tk_loop" /\ pc'[Coordinator] = "tk_loop") => data' = data
       /\ res' # res => res'.value = AdapterPrinter(data, res'.serial)
      ]_vars

\* C11 witness: an adapter has read printer A while the tick that fetched A
\* and B has put only A into its mapping and nothing is published yet.
C11_Witness ==
    /\ pc[Coordinator] = "tk_loop"
    /\ Len(printers.items) = 2
    /\ DOMAIN loop.by_serial = {"A"}
    /\ printers.items[2] = EntryOf("B")
    /\ data.printers_by_serial = Emp
    /\ res.fn = "_printer" /\ res.serial = "A" /\ res.value = EmptyObject

\* C12: the coordinator is idle or refreshing; while refreshing it is in one
\* tick with at most one token request and one GET sent; a tick leaves
\* refreshing only by publishing the mapping it returned or by signalling
\* UpdateFailed (a timed-out request included); and every tick that is
\* refreshing is idle again later.
C12_TickReturnsToIdle ==
    /\ [](/\ pc[Coordinator] \in {"idle", "gt_lock", "gt_post", "rq_get", "tk_build"}
          /\ pc[Coordinator] # "idle" =>
                 /\ op[Coordinator] = "tick"
                 /\ nTok[Coordinator] <= 1 /\ nGet[Coordinator] <= 1
                 /\ Cardinality({x \in {"gt_post", "rq_get"} : pc[Coordinator] = x}) <= 1)
    /\ [][(pc[Coordinator] # "idle" /\ pc'[Coordinator] = "idle") =>
              \/ /\ last'.out.kind = "return"
                 /\ last_update_success'
                 /\ data' = [set |-> TRUE, printers_by_serial |-> last'.out.by_serial]
              \/ /\ last'.out.kind = "raise"
                 /\ last'.out.exc.type = "UpdateFailed"
                 /\ ~last_update_success'
                 /\ data' = data]_vars
    /\ (pc[Coordinator] # "idle") ~> (pc[Coordinator] = "idle")

\* C12 witness: a tick whose GET timed out is over: the coordinator is idle
\* and the failure is signalled.
C12_Witness ==
    /\ pc[Coordinator] = "idle"
    /\ last.op = "tick" /\ last.via = "get_fail"
    /\ last.out.kind = "raise"
    /\ last.out.exc.type = "UpdateFailed" /\ last.out.exc.cause = "TimeoutError"
    /\ ~last_update_success

\* C13: the flow reaches the creation of the entry only after async_get_token
\* and then async_list_printers have both returned; when either raised, the
\* flow made no further call, sent at most one token request and one GET,
\* and shows the form again with errors = "auth" whichever call failed and
\* whatever it raised; no exception leaves the step.
C13_EntryOnlyAfterBothCalls ==
    LET GetOk == [op |-> "get_token", ok |-> TRUE]
        ListOk == [op |-> "list_printers", ok |-> TRUE]
    IN /\ flow.step \in {"entry", "abort"} =>
              flow.calls = <<GetOk, ListOk>> /\ flow.errors = ""
       /\ (flow.step = "form" /\ flow.calls # << >>) =>
              /\ flow.errors = "auth"
              /\ \/ flow.calls = <<[op |-> "get_token", ok |-> FALSE]>>
                 \/ flow.calls = <<GetOk, [op |-> "list_printers", ok |-> FALSE]>>
              /\ last.out.kind = "raise"
       /\ flow.posts <= 1 /\ flow.gets <= 1
       /\ flow.step \in {"form", "get_token", "list_printers", "entry", "abort"}

\* C13 witness: async_get_token returned, async_list_printers was refused
\* with status 500, and the form is shown again with errors = "auth".
C13_Witness ==
    /\ flow.step = "form"
    /\ flow.errors = "auth"
    /\ Len(flow.calls) = 2
    /\ last.op = "list_printers"
    /\ last.out.kind = "raise"
    /\ last.out.exc.type = "FormlabsApiError"
    /\ flow.posts = 1 /\ flow.gets = 1

\* C14: while the last tick has failed no adapter of any kind is available,
\* the failing tick having left every adapter's printer in the snapshot as
\* it was; and an adapter becomes available only in the step in which a
\* tick ends by publishing.
C14_FailedTickMakesUnavailable ==
    /\ [](~last_update_success =>
              \A kind \in AdapterKinds, serial \in AdapterSerials : ~Available(kind, serial))
    /\ [][/\ (pc'[Coordinator] = "idle" /\ pc[Coordinator] # "idle" /\ ~last_update_success') =>
                 \A serial \in AdapterSerials :
                     AdapterPrinter(data', serial) = AdapterPrinter(data, serial)
          /\ \A kind \in AdapterKinds, serial \in AdapterSerials :
                 (~Available(kind, serial) /\ Available(kind, serial)') =>
                     /\ pc[Coordinator] # "idle" /\ pc'[Coordinator] = "idle"
                     /\ last'.out.kind = "return"
                     /\ last_update_success'
         ]_vars

\* C14 witness: printer A was published with status Idle, the next tick's
\* GET timed out: A is still in the snapshot and online by its status, and
\* no adapter is available.
C14_Witness ==
    /\ ~last_update_success
    /\ last.via = "get_fail"
    /\ "A" \in DOMAIN data.printers_by_serial
    /\ IsOnline(AdapterPrinter(data, "A"))
    /\ \A kind \in AdapterKinds : ~Available(kind, "A")

\* C15 as stated: whenever the run has a current layer c and a layer count
\* n > 0, progress is c / n x 100 clamped to [0, 100].
C15_Original ==
    (res.fn = "progress" /\ arg.v.has
     /\ arg.v.currently_printing_layer.k = "num"
     /\ arg.v.layer_count.k = "num" /\ arg.v.layer_count.n > 0) =>
        LET t == Round(1000 * arg.v.currently_printing_layer.n, arg.v.layer_count.n)
        IN res.value = Num(IF t < 0 THEN 0 ELSE IF t > 1000 THEN 1000 ELSE t)

\* C15 (amended): when the run carries no usable direct progress value
\* (progress is absent or 0 and progress_percent is absent), a current layer
\* c and a layer count n > 0 give c / n x 100 clamped to [0, 100]; when the
\* layer counts are absent as well, elapsed / estimated duration gives the
\* percentage with the same clamp; and whatever the run holds, the progress
\* is a number within [0, 100].
C15_ProgressFromLayers ==
    res.fn = "progress" =>
        LET run == arg.v
            direct == IF TruthyV(run.progress) THEN run.progress ELSE run.progress_percent
            c == run.currently_printing_layer
            n == run.layer_count
            e == run.elapsed_duration_ms
            d == run.estimated_duration_ms
            Pct(a, b) == LET t == Round(1000 * a, b)
                         IN Num(IF t < 0 THEN 0 ELSE IF t > 1000 THEN 1000 ELSE t)
        IN /\ res.value.k = "num" /\ 0 <= res.value.n /\ res.value.n <= 1000
           /\ (run.has /\ direct.k = "none" /\ c.k = "num" /\ n.k = "num" /\ n.n > 0) =>
                  res.value = Pct(c.n, n.n)
           /\ (run.has /\ direct.k = "none" /\ (c.k = "none" \/ n.k = "none")
               /\ e.k = "num" /\ d.k = "num" /\ d.n > 0) =>
                  res.value = Pct(e.n, d.n)

\* C15 witness: layer 50 of 200 without a direct value reads 25.0, and layer
\* 300 of 200 reads 100.0.
C15_Witness ==
    /\ res.fn = "progress"
    /\ arg.v.has /\ arg.v.progress = NoneV /\ arg.v.progress_percent = NoneV
    /\ arg.v.layer_count = Num(200)
    /\ \/ arg.v.currently_printing_layer = Num(50) /\ res.value = Num(250)
       \/ arg.v.currently_printing_layer = Num(300) /\ res.value = Num(1000)

C17_OnlineIffRecentPing ==
    res.fn \in {"online", "online_by_status"} =>
        LET ping == IF arg.v.printer_status.last_pinged_at.k # "none"
                    THEN arg.v.printer_status.last_pinged_at
                    ELSE arg.v.last_pinged_at
        IN res.value <=> (ping.k = "num" /\ arg.v.now - ping.n <= 10)

\* C18: when the printer's cartridge object has an initial and a dispensed
\* volume, the remaining volume is their difference, or 0 when the
\* difference is negative, so never below 0; without a cartridge object or
\* without either volume it is None.
C18_RemainingFlooredAtZero ==
    res.fn = "cartridge_remaining" =>
        LET cs == arg.v.cartridge_status
            found == {i \in 1..Len(cs.items) :
                          cs.items[i].isdict /\ cs.items[i].cartridge.isdict}
            first == cs.items[CHOOSE i \in found : \A j \in found : i <= j].cartridge
        IN /\ res.value.k = "num" => res.value.n >= 0
           /\ found = {} => res.value = NoneV
           /\ (found # {} /\ first.initial_volume_ml.k = "num"
               /\ first.volume_dispensed_ml.k = "num") =>
                  /\ res.value.k = "num"
                  /\ LET d == first.initial_volume_ml.n - first.volume_dispensed_ml.n
                     IN res.value.n = IF d < 0 THEN 0 ELSE d
           /\ (found # {} /\ (first.initial_volume_ml.k = "none"
                              \/ first.volume_dispensed_ml.k = "none")) =>
                  res.value = NoneV

\* C18 witness: a cartridge of 1000 ml with 1200 ml dispensed reads 0.
C18_Witness ==
    /\ res.fn = "cartridge_remaining"
    /\ arg.v.cartridge_status.t = "dict"
    /\ arg.v.cartridge_status.items[1].cartridge.initial_volume_ml = Num(1000)
    /\ arg.v.cartridge_status.items[1].cartridge.volume_dispensed_ml = Num(1200)
    /\ res.value = Num(0)

\* C19: a cartridge_status that is an object is the item itself; of a list
\* the item is the first entry that is an object with an object as its
\* cartridge; a list without such an entry, and any other shape, give None.
C19_CartridgeItemResolution ==
    res.fn = "cartridge_item" =>
        LET cs == arg.v.cartridge_status
            Fits(i) == cs.items[i].isdict /\ cs.items[i].cartridge.isdict
        IN /\ cs.t = "dict" => res.value = cs.items[1]
           /\ cs.t = "list" =>
                  \/ /\ res.value = NoItem
                     /\ \A i \in 1..Len(cs.items) : ~Fits(i)
                  \/ \E i \in 1..Len(cs.items) :
                         /\ Fits(i)
                         /\ \A j \in 1..(i - 1) : ~Fits(j)
                         /\ res.value = cs.items[i]
           /\ cs.t = "other" => res.value = NoItem

\* C19 witness: of a list whose first entry is an object without a cartridge
\* object and whose second entry has one, the second entry is the item.
C19_Witness ==
    /\ res.fn = "cartridge_item"
    /\ arg.v.cartridge_status.t = "list"
    /\ Len(arg.v.cartridge_status.items) = 2
    /\ arg.v.cartridge_status.items[1].isdict
    /\ ~arg.v.cartridge_status.items[1].cartridge.isdict
    /\ arg.v.cartridge_status.items[2].cartridge.isdict
    /\ res.value = arg.v.cartridge_status.items[2]

\* y is x with the value of every sensitive key replaced by the marker at
\* every depth, and with every other key, value and nesting as in x. Of the
\* model's keys, Token and xEMAIL contain a sensitive substring when
\* lowered, name and toke do not.
RECURSIVE C20_RedactedFrom(_, _)
C20_RedactedFrom(x, y) ==
    /\ y.t = x.t /\ y.s = x.s
    /\ Len(y.kv) = Len(x.kv) /\ Len(y.items) = Len(x.items)
    /\ \A i \in 1..Len(x.kv) :
           /\ y.kv[i].k = x.kv[i].k
           /\ IF x.kv[i].k \in {<<"T", "o", "k", "e", "n">>, <<"x", "E", "M", "A", "I", "L">>}
              THEN y.kv[i].v = REDACTED
              ELSE C20_RedactedFrom(x.kv[i].v, y.kv[i].v)
    /\ \A i \in 1..Len(x.items) : C20_RedactedFrom(x.items[i], y.items[i])

\* C20: the payload attribute is the stored object with the value of every
\* key containing a sensitive substring (case-insensitively) replaced by the
\* marker at every depth of objects and lists and with everything else as it
\* was; redacting the result again changes nothing; and the stored object is
\* the same after the read as before.
C20_RedactionDeepIdempotentPure ==
    /\ [](res.fn = "redact" =>
              /\ C20_RedactedFrom(arg.v, res.value)
              /\ Redact(res.value) = res.value)
    /\ [][arg'.v = arg.v]_vars

\* C20 witness: the stored object is a list holding {name: "v", Token: "v"};
\* the payload holds the marker under Token and "v" under name, and the
\* stored object still holds "v" under Token.
C20_Witness ==
    /\ res.fn = "redact"
    /\ arg.v.t = "list" /\ Len(arg.v.items) = 1
    /\ arg.v.items[1].t = "dict" /\ Len(arg.v.items[1].kv) = 2
    /\ arg.v.items[1].kv[2] = [k |-> <<"T", "o", "k", "e", "n">>, v |-> Scalar("v")]
    /\ res.value.items[1].kv[2].v = REDACTED
    /\ res.value.items[1].kv[1].v = Scalar("v")

C22_NoAdapterRaises ==
    res.fn \in {"progress", "eta", "time_remaining", "cartridge_remaining"} =>
        res.value.k # "raise"

\* C23: a printer-list call that ends with an error status other than 401
\* and 403, with a timeout or with a transport failure leaves the cached
\* token and the token type as they were; and a list_printers call that gets
\* the lock while a token is cached sends its GET with that token and no
\* token request.
C23_OtherFailuresKeepToken ==
    [][\A c \in Tasks :
          /\ (/\ EndsFrom(c, "rq_get")
              /\ \/ last'.via = "get_fail"
                 \/ /\ last'.via = "get"
                    /\ last'.gresp.status >= 400
                    /\ last'.gresp.status \notin {401, 403}) =>
                 /\ last'.out.kind = "raise"
                 /\ token' = token
                 /\ token_type' = token_type
          /\ (pc[c] = "gt_lock" /\ pc'[c] # "gt_lock" /\ op[c] = "list_printers"
              /\ Truthy(token)) =>
                 /\ pc'[c] = "rq_get"
                 /\ req_token'[c] = token
                 /\ nTok'[c] = 0
                 /\ token' = token
      ]_vars

\* C23 witness: a list_printers call was refused with status 400, the token
\* it was sent with is still cached, and the next list_printers call has its
\* GET in flight with that token and without a token request.
C23_Witness ==
    /\ last.op = "list_printers" /\ last.via = "get" /\ last.gresp.status = 400
    /\ token = "tokA"
    /\ \A c \in Callers : pc[c] \in {"idle", "rq_get"}
    /\ \E c \in Callers :
           /\ pc[c] = "rq_get" /\ op[c] = "list_printers"
           /\ req_token[c] = "tokA" /\ nTok[c] = 0

\* C24 as stated: a 401 or 403 answering a GET that was sent with another
\* token than the one cached now leaves the cached token in place.
C24_StaleRefusalKeepsNewerToken ==
    [][\A c \in Tasks :
          (/\ EndsFrom(c, "rq_get")
           /\ last'.via = "get"
           /\ last'.gresp.status \in {401, 403}
           /\ Truthy(token)
           /\ req_token[c] # token) => token' = token
      ]_vars

\* C25: the token lock is held only by a task whose token POST is in flight
\* and is released on every exit of that POST (token returned, authentication
\* refused, transport failure, timeout); a task waiting for the lock therefore
\* gets past it eventually, and when it finds the cache empty it sends a token
\* request of its own.
C25_LockAlwaysReleased ==
    /\ [](\A c \in Tasks : c \in lock => pc[c] = "gt_post")
    /\ [][\A c \in Tasks :
             /\ (pc[c] = "gt_post" /\ pc'[c] # "gt_post") => lock' = {}
             /\ (pc[c] = "gt_lock" /\ pc'[c] # "gt_lock" /\ token = None) =>
                    /\ pc'[c] = "gt_post" /\ lock' = {c} /\ nTok'[c] = nTok[c] + 1
         ]_vars
    /\ \A c \in Callers : (pc[c] = "gt_lock") ~> (pc[c] # "gt_lock")

\* C25 witness: a token request has failed without a response, the cache is
\* empty and another task holds the lock for a token request of its own.
C25_Witness ==
    /\ last.via = "token_fail" /\ token = None
    /\ \E c \in Callers : pc[c] = "gt_post" /\ lock = {c} /\ nTok[c] = 1

\* C26: during setup the API client and the coordinator are registered, the
\* platforms set up and the adapters created only after the first refresh has
\* succeeded; when the first refresh fails, nothing is registered and no
\* adapter is created.
C26_RegisteredOnlyAfterFirstRefresh ==
    /\ (setup.registered # {} \/ setup.forwarded # {} \/ setup.entities # {}) =>
          /\ last.op = "tick" /\ last.out.kind = "return"
          /\ data.set /\ last_update_success
          /\ pc[Coordinator] = "idle"
          /\ setup.registered = {"api", "coordinator"}
    /\ (last.op = "tick" /\ last.out.kind = "raise") =>
          /\ setup.registered = {} /\ setup.forwarded = {} /\ setup.entities = {}
          /\ setup.step \in {"first_refresh", "not_ready"}
    /\ setup.step = "not_ready" => last.op = "tick" /\ last.out.kind = "raise"
    /\ setup.entities \subseteq
          {"sensor", "binary_sensor"} \X (DOMAIN data.printers_by_serial)

\* C26 witness: the setup has returned after a first refresh that found a
\* printer, and both platforms have created that printer's adapters.
C26_Witness ==
    /\ setup.step = "done"
    /\ setup.entities = {<<"sensor", "A">>, <<"binary_sensor", "A">>}
    /\ last.op = "tick" /\ last.out.kind = "return"

\* C27: the camera's stored last image changes only when a thumbnail fetch
\* returns status 200 with non-empty bytes, and then the read returns those
\* bytes; every other read (no URL, another status, an empty body, a transport
\* failure or timeout) returns the previously stored image and leaves it as it
\* was; a stored image is never reset to none.
C27_LastImageFrozen ==
    [][LET ended == cam'.reads = cam.reads + 1
           ok == /\ ended
                 /\ cam'.url \in {"u1", "u2"}
                 /\ cam'.fetch.kind = "resp"
                 /\ cam'.fetch.status = 200
                 /\ cam'.fetch.body \in {"img1", "img2"}
       IN /\ ok => cam'.last_image = cam'.fetch.body /\ cam'.returned = cam'.fetch.body
          /\ (ended /\ ~ok) => cam'.last_image = cam.last_image /\ cam'.returned = cam.last_image
          /\ cam'.last_image # cam.last_image => ok
          /\ cam.last_image # None => cam'.last_image # None
      ]_vars

\* C27 witness: an image was stored by a first read, and a second read whose
\* fetch was answered 404 has returned that stored image.
C27_Witness ==
    /\ cam.reads = 2
    /\ cam.url = "u1" /\ cam.fetch.kind = "resp" /\ cam.fetch.status = 404
    /\ cam.fetch.body = "img2"
    /\ cam.last_image = "img1" /\ cam.returned = "img1"

\* C28 as stated: in both revisions the ready-to-print adapter is on when
\* ready_to_print is READY_TO_PRINT_READY, READY or the boolean true, and off
\* when it is READY_TO_PRINT_NOT_READY, absent or unrecognised.
C28_ReadyToPrintOnOff ==
    res.fn \in {"ready", "ready_by_str"} =>
        LET v == arg.v.ready_to_print
            isOn == /\ arg.v.has_status
                    /\ \/ v.k = "bool" /\ v.b
                       \/ v.k = "str" /\ Len(v.s) = 20
                       \/ v.k = "str" /\ Len(v.s) = 5 /\ v.s[1] = "R"
            isOff == \/ ~arg.v.has_status
                     \/ v.k = "none"
                     \/ v.k = "str" /\ Len(v.s) = 24
                     \/ v.k = "str" /\ Len(v.s) = 4
        IN /\ isOn => res.value = TRUE
           /\ isOff => res.value = FALSE

====
